---- MODULE Spec2Model ----
(***************************************************************************)
(* SberSaluteSpeechRecognitionService (src/unnamed/part_000).              *)
(*                                                                         *)
(* One client instance holds the field `token`.  speechToText is an async  *)
(* function: it runs to completion between suspension points, and its      *)
(* suspension points are the awaited file read (parseFile), the awaited    *)
(* HTTP requests (axios) and the awaited timer (delay).  Each action below  *)
(* is one resumption of one call: it starts where a promise settles and    *)
(* runs the code up to the next request, timer, return or throw.  Several  *)
(* calls on the same instance interleave at those points only.             *)
(*                                                                         *)
(* Date.now() is the variable `now`; it advances by Tick between           *)
(* resumptions.  The remote service, the file system and the timer are the *)
(* environment: their answers are chosen with \E from small sets.          *)
(***************************************************************************)
EXTENDS Integers, Sequences, FiniteSets, TLC

VARIABLES
    now,        \* Date.now()
    token,      \* this.token
    issued,     \* number of tokens the token endpoint has handed out
    pc,         \* per call: where the call is suspended
    pending,    \* per call: the request that waits for the token exchange
    audioPath,  \* per call: speechToText's argument audioPath
    encoding,   \* per call: speechToText's argument encoding
    metadata,   \* per call: const metadata
    upload,     \* per call: const fileUploadResponse
    job,        \* per call: const recognitionResponse
    startTime,  \* per call: const startTime
    status,     \* per call: let recognitionStatus
    wakeAt,     \* per call: earliest time the pending setTimeout fires
    recognitionResult,  \* per call: const recognitionResult
    outcome,    \* per call: the value the promise resolved with / error thrown
    log,        \* history, per call: the requests it has issued, in order
    seen,       \* history, per call: the status values received, in order, each
                \* with Date.now() - startTime at its arrival
    ga          \* history, per call: its latest getAccessToken invocation

vars == <<now, token, issued, pc, pending, audioPath, encoding, metadata, upload,
          job, startTime, status, wakeAt, recognitionResult,
          outcome, log, seen, ga>>

----------------------------------------------------------------------------
(* Constants imported from ./constants, scaled to the model's clock unit.  *)

MAX_WAIT_TIME == 3

RECOGNITION_POLLING_DELAY == 2

(* Bounds of the model.                                                    *)

\* Date.now() advances freely up to here; past it only while a timer is pending.
MaxTime == 5

\* The token endpoint stops answering with tokens after this many.
MaxTokens == 3

\* the speechToText calls made on the one client instance
Calls == {"c1", "c2"}

\* the calls that run under Spec
Solo == {"c1"}

----------------------------------------------------------------------------
(* Values.                                                                 *)

\* this.token = null, and every other falsy response body
NoToken == [access_token |-> 0, expires_at |-> 0]

\* !this.token
Falsy(tok) == tok.access_token = 0

\* lifetimes the token endpoint grants (expires_at - Date.now() at issue)
TokenLifetimes == {1, 4}

Paths == {"/audio.mp3"}

\* the bytes stored in the file at a path
FileBytes(p) == IF p = "/audio.mp3" THEN "<bytes of /audio.mp3>" ELSE "<no file>"

Encodings == {"MP3"}

\* parseFile(audioPath): format.sampleRate, format.numberOfChannels
NoMetadata == [sampleRate |-> 0, numberOfChannels |-> 0]

MetaOf(p) == [sampleRate |-> 16000, numberOfChannels |-> 1]

\* a property read from an object that lacks it
Undefined == "undefined"

\* a local the call has not assigned yet
Unset == "unset"

\* a response body without the `result` object
NoResult == "no result object"

FileIds == {"file-1", "file-2"}

JobIds == {"job-1", "job-2"}

ResponseFileIds == {"resp-1", "resp-2"}

Statuses == {"RUNNING", "ERROR", "DONE"}

\* bodies the upload endpoint may answer with: result.request_file_id
UploadBodies == FileIds \cup {Undefined, NoResult}

NoStatus == [status |-> Unset, response_file_id |-> Unset]

NoOptions == [model |-> Undefined, audio_encoding |-> Undefined,
              sample_rate |-> 0, channels_count |-> 0]

\* a request that needs a token: which endpoint, and what it carries
NoPending == [kind |-> "none", arg |-> Undefined, options |-> NoOptions]

NoOutcome == [kind |-> "none", text |-> <<>>, normalizedText |-> <<>>]

\* one getAccessToken invocation: the token held and Date.now() on entry, the
\* token requests it sent, what the token endpoint replied, and how it ended
NoGa == [held |-> NoToken, at |-> 0, exchanges |-> 0, reply |-> "none",
         returned |-> NoToken, state |-> "none"]

----------------------------------------------------------------------------
(* Result aggregation: strings are sequences of characters.                *)

Fragment(t, n) == [text |-> t, normalized_text |-> n]

IsSpace(ch) == ch = " "

RECURSIVE TrimStart(_)
TrimStart(s) ==
    IF s # <<>> /\ IsSpace(Head(s)) THEN TrimStart(Tail(s)) ELSE s

RECURSIVE TrimEnd(_)
TrimEnd(s) ==
    IF s # <<>> /\ IsSpace(s[Len(s)]) THEN TrimEnd(SubSeq(s, 1, Len(s) - 1)) ELSE s

\* String.prototype.trim
Trim(s) == TrimEnd(TrimStart(s))

\* ReduceFragments without the separating space
RECURSIVE ReduceFragmentsNoSpace(_, _, _)
ReduceFragmentsNoSpace(frags, field, acc) ==
    IF frags = <<>> THEN acc
    ELSE ReduceFragmentsNoSpace(Tail(frags), field, acc \o Head(frags)[field])

\* item.results.reduce((acc, item) => acc + ' ' + item.text, '')
RECURSIVE ReduceFragments(_, _, _)
ReduceFragments(frags, field, acc) ==
    IF frags = <<>> THEN acc
    ELSE ReduceFragments(Tail(frags), field, acc \o <<" ">> \o Head(frags)[field])

\* recognitionResult.reduce((acc, item) => acc + item.results.reduce(...), '')
RECURSIVE ReduceSegments(_, _, _)
ReduceSegments(segs, field, acc) ==
    IF segs = <<>> THEN acc
    ELSE ReduceSegments(Tail(segs), field,
                        acc \o ReduceFragments(Head(segs), field, <<>>))

Aggregate(result) ==
    [kind |-> "resolved",
     text |-> Trim(ReduceSegments(result, "text", <<>>)),
     normalizedText |-> Trim(ReduceSegments(result, "normalized_text", <<>>))]

\* longest segment list and longest fragment list of the results AggSpec draws
MaxSegments == 2

MaxFragments == 2

SeqsUpTo(S, n) == UNION {[1..k -> S] : k \in 0..n}

\* fragments of the results AggSpec draws: plain, blank and empty strings
SampleFragments ==
    {Fragment(<<"a">>, <<"A">>), Fragment(<<"b">>, <<"B">>), Fragment(<<" ">>, <<>>)}

\* every download result of at most MaxSegments segments of at most
\* MaxFragments fragments each
BoundedResults == SeqsUpTo(SeqsUpTo(SampleFragments, MaxFragments), MaxSegments)

\* recognitionResult before getRecognitionResult has returned
NotDownloaded == <<>>

\* bodies the download endpoint answers with in the client's runs
DownloadBodies ==
    { << >>,
      << <<Fragment(<<"a">>, <<"A">>), Fragment(<<"b">>, <<"B">>)>> >>,
      << << >>, <<Fragment(<<" ", "h">>, <<"h", " ">>)>> >> }

----------------------------------------------------------------------------
(* Token manager.                                                          *)

\* Expired with the comparison reversed
ExpiredReversed(tok, t) == tok.expires_at > t - MAX_WAIT_TIME

\* getAccessToken's refresh condition on a held token
Expired(tok, t) == tok.expires_at < t - MAX_WAIT_TIME

\* NeedsUpdate that skips the refresh while another call's token request is
\* in flight
NeedsUpdateSingleFlight(tok, t) ==
    /\ Falsy(tok) \/ tok.expires_at < t - MAX_WAIT_TIME
    /\ \A c \in Calls : pc[c] # "token"

\* NeedsUpdate without the test for a missing token
NeedsUpdateNoNull(tok, t) == Expired(tok, t)

\* if (!this.token || this.token.expires_at < Date.now() - MAX_WAIT_TIME)
NeedsUpdate(tok, t) == Falsy(tok) \/ Expired(tok, t)

\* KeepPolling that also stops on a failure status
KeepPollingStopsOnError(s) == s \notin {"DONE", "ERROR"}

\* KeepPolling with the test inverted
KeepPollingInverted(s) == s = "DONE"

\* while (recognitionStatus.result.status !== 'DONE')
KeepPolling(s) == s # "DONE"

\* TimedOut with >= in place of >
TimedOutNonStrict(t, start) == t - start >= MAX_WAIT_TIME

\* TimedOut with the deadline one unit late
TimedOutOffByOne(t, start) == t - start > MAX_WAIT_TIME + 1

\* if (Date.now() - startTime > MAX_WAIT_TIME)
TimedOut(t, start) == t - start > MAX_WAIT_TIME

\* MissingToken with the check left out
MissingTokenUnchecked(tok) == FALSE

\* if (!this.token) throw new Error('Failed to get access token')
MissingToken(tok) == Falsy(tok)

\* one request as the remote side sees it; elapsed is Date.now() - startTime
\* when a status or download request leaves
Entry(kind, bearer, arg, options, elapsed) ==
    [kind |-> kind, bearer |-> bearer, arg |-> arg, options |-> options,
     elapsed |-> elapsed]

\* uploadFileForRecognition's request: data: audioFilePath
UploadRequest(path) ==
    [kind |-> "upload", arg |-> path, options |-> NoOptions]

\* StartRequest with request_file_id left out of the body
StartRequestNoFileId(fileId, enc, meta) ==
    [kind |-> "start", arg |-> Undefined,
     options |-> [model |-> "general", audio_encoding |-> enc,
                  sample_rate |-> meta.sampleRate,
                  channels_count |-> meta.numberOfChannels]]

\* startRecognition's request: JSON.stringify({options: {...}, request_file_id})
StartRequest(fileId, enc, meta) ==
    [kind |-> "start", arg |-> fileId,
     options |-> [model |-> "general", audio_encoding |-> enc,
                  sample_rate |-> meta.sampleRate,
                  channels_count |-> meta.numberOfChannels]]

\* StatusRequest sent to the async_recognize endpoint
StatusRequestToStart(jobId) ==
    [kind |-> "start", arg |-> jobId, options |-> NoOptions]

\* getRecognitionStatus's request: task:get?id=${recognition.result.id}
StatusRequest(jobId) ==
    [kind |-> "status", arg |-> jobId, options |-> NoOptions]

\* getRecognitionResult's request: data:download?response_file_id=...
DownloadRequest(responseFileId) ==
    [kind |-> "download", arg |-> responseFileId, options |-> NoOptions]

\* axios.request of one stage, with the Bearer header built from `tok`
Send(c, p, tok, start) ==
    /\ pc' = [pc EXCEPT ![c] = p.kind]
    /\ pending' = [pending EXCEPT ![c] = NoPending]
    /\ log' = [log EXCEPT ![c] =
                 Append(@, Entry(p.kind, tok.access_token, p.arg, p.options,
                                 IF p.kind \in {"status", "download"}
                                 THEN now - start ELSE 0))]

\* updateAccessToken's axios call
SendTokenRequest(c, p) ==
    /\ pc' = [pc EXCEPT ![c] = "token"]
    /\ pending' = [pending EXCEPT ![c] = p]
    /\ log' = [log EXCEPT ![c] =
                 Append(@, Entry("token", 0, "scope", NoOptions, 0))]

\* `await this.getAccessToken()` followed by the stage's axios.request
Authorized(c, p, start) ==
    IF NeedsUpdate(token, now)
    THEN /\ SendTokenRequest(c, p)
         /\ ga' = [ga EXCEPT ![c] = [held |-> token, at |-> now, exchanges |-> 1,
                                     reply |-> "none", returned |-> NoToken,
                                     state |-> "waiting"]]
    ELSE /\ Send(c, p, token, start)
         /\ ga' = [ga EXCEPT ![c] = [held |-> token, at |-> now, exchanges |-> 0,
                                     reply |-> "none", returned |-> token,
                                     state |-> "returned"]]

\* Fail with the error swallowed and an empty transcript returned
FailSwallowed(c, kind) ==
    /\ pc' = [pc EXCEPT ![c] = "resolved"]
    /\ outcome' = [outcome EXCEPT ![c] = [NoOutcome EXCEPT !.kind = "resolved"]]
    /\ pending' = [pending EXCEPT ![c] = NoPending]

\* a throw inside speechToText: the promise rejects with the error
Fail(c, kind) ==
    /\ pc' = [pc EXCEPT ![c] = "failed"]
    /\ outcome' = [outcome EXCEPT ![c] = [NoOutcome EXCEPT !.kind = kind]]
    /\ pending' = [pending EXCEPT ![c] = NoPending]

----------------------------------------------------------------------------
Init ==
    /\ now = 0
    /\ token = NoToken
    /\ issued = 0
    /\ pc = [c \in Calls |-> "idle"]
    /\ pending = [c \in Calls |-> NoPending]
    /\ audioPath = [c \in Calls |-> Unset]
    /\ encoding = [c \in Calls |-> Unset]
    /\ metadata = [c \in Calls |-> NoMetadata]
    /\ upload = [c \in Calls |-> Unset]
    /\ job = [c \in Calls |-> Unset]
    /\ startTime = [c \in Calls |-> 0]
    /\ status = [c \in Calls |-> NoStatus]
    /\ wakeAt = [c \in Calls |-> 0]
    /\ recognitionResult = [c \in Calls |-> NotDownloaded]
    /\ outcome = [c \in Calls |-> NoOutcome]
    /\ log = [c \in Calls |-> <<>>]
    /\ seen = [c \in Calls |-> <<>>]
    /\ ga = [c \in Calls |-> NoGa]

\* Date.now() moves on
Tick ==
    /\ \/ now < MaxTime
       \/ \E c \in Calls : pc[c] = "delay" /\ now < wakeAt[c]
    /\ now' = now + 1
    /\ UNCHANGED <<token, issued, pc, pending, audioPath, encoding, metadata,
                   upload, job, startTime, status, wakeAt, recognitionResult, outcome, log,
                   seen, ga>>

\* speechToText(audioPath, encoding) is called: up to `await parseFile`
Call(c) ==
    /\ pc[c] = "idle"
    /\ \E p \in Paths : audioPath' = [audioPath EXCEPT ![c] = p]
    /\ \E e \in Encodings : encoding' = [encoding EXCEPT ![c] = e]
    /\ pc' = [pc EXCEPT ![c] = "parse"]
    /\ UNCHANGED <<now, token, issued, pending, metadata, upload, job, startTime,
                   status, wakeAt, recognitionResult, outcome, log, seen, ga>>

\* parseFile settles; on success uploadFileForRecognition runs up to its request
ParseDone(c) ==
    /\ pc[c] = "parse"
    /\ \/ /\ Fail(c, "parse")
          /\ UNCHANGED <<metadata, log, ga>>
       \/ /\ metadata' = [metadata EXCEPT ![c] = MetaOf(audioPath[c])]
          /\ Authorized(c, UploadRequest(audioPath[c]), 0)
          /\ UNCHANGED outcome
    /\ UNCHANGED <<now, token, issued, audioPath, encoding, upload, job,
                   startTime, status, wakeAt, recognitionResult, seen>>

\* bodies the token endpoint may answer with
TokenBodies ==
    {NoToken} \cup
    IF issued < MaxTokens
    THEN {[access_token |-> issued + 1, expires_at |-> now + life] :
            life \in TokenLifetimes}
    ELSE {}

\* what the token endpoint's answer held
TokenReply(body) == IF body = NoToken THEN "empty" ELSE "token"

\* TokenResponse with the held token dropped when the request fails
TokenResponseClearsOnError(c) ==
    /\ pc[c] = "token"
    /\ \/ /\ Fail(c, "transport")
          /\ ga' = [ga EXCEPT ![c].reply = "error", ![c].state = "threw"]
          /\ token' = NoToken
          /\ UNCHANGED <<issued, log>>
       \/ \E body \in TokenBodies :
            /\ token' = body
            /\ issued' = IF Falsy(body) THEN issued ELSE issued + 1
            /\ IF MissingToken(token')
               THEN /\ Fail(c, "auth")
                    /\ ga' = [ga EXCEPT ![c].reply = TokenReply(body),
                                        ![c].state = "threw"]
                    /\ UNCHANGED log
               ELSE /\ Send(c, pending[c], token', startTime[c])
                    /\ ga' = [ga EXCEPT ![c].reply = TokenReply(body),
                                        ![c].returned = token',
                                        ![c].state = "returned"]
                    /\ UNCHANGED outcome
    /\ UNCHANGED <<now, audioPath, encoding, metadata, upload, job, startTime,
                   status, wakeAt, recognitionResult, seen>>

\* the token request settles: updateAccessToken stores response.data, then
\* getAccessToken checks it and the waiting stage sends its request
TokenResponse(c) ==
    /\ pc[c] = "token"
    /\ \/ /\ Fail(c, "transport")
          /\ ga' = [ga EXCEPT ![c].reply = "error", ![c].state = "threw"]
          /\ UNCHANGED <<token, issued, log>>
       \/ \E body \in TokenBodies :
            /\ token' = body
            /\ issued' = IF Falsy(body) THEN issued ELSE issued + 1
            /\ IF MissingToken(token')
               THEN /\ Fail(c, "auth")
                    /\ ga' = [ga EXCEPT ![c].reply = TokenReply(body),
                                        ![c].state = "threw"]
                    /\ UNCHANGED log
               ELSE /\ Send(c, pending[c], token', startTime[c])
                    /\ ga' = [ga EXCEPT ![c].reply = TokenReply(body),
                                        ![c].returned = token',
                                        ![c].state = "returned"]
                    /\ UNCHANGED outcome
    /\ UNCHANGED <<now, audioPath, encoding, metadata, upload, job, startTime,
                   status, wakeAt, recognitionResult, seen>>

\* the upload request settles; on success startRecognition runs up to its request
UploadResponse(c) ==
    /\ pc[c] = "upload"
    /\ \/ /\ Fail(c, "transport")
          /\ UNCHANGED <<upload, log, ga>>
       \/ \E body \in UploadBodies :
            /\ upload' = [upload EXCEPT ![c] = body]
            /\ IF body = NoResult
               THEN /\ Fail(c, "type")
                    /\ UNCHANGED <<log, ga>>
               ELSE /\ Authorized(c, StartRequest(body, encoding[c], metadata[c]), 0)
                    /\ UNCHANGED outcome
    /\ UNCHANGED <<now, token, issued, audioPath, encoding, metadata, job,
                   startTime, status, wakeAt, recognitionResult, seen>>

\* the start request settles; on success startTime is taken and the first
\* getRecognitionStatus runs up to its request
StartResponse(c) ==
    /\ pc[c] = "start"
    /\ \/ /\ Fail(c, "transport")
          /\ UNCHANGED <<job, startTime, log, ga>>
       \/ \E id \in JobIds :
            /\ job' = [job EXCEPT ![c] = id]
            /\ startTime' = [startTime EXCEPT ![c] = now]
            /\ Authorized(c, StatusRequest(id), now)
            /\ UNCHANGED outcome
    /\ UNCHANGED <<now, token, issued, audioPath, encoding, metadata, upload,
                   status, wakeAt, recognitionResult, seen>>

\* StatusResponse with the deadline tested before the status
StatusResponseDeadlineFirst(c) ==
    /\ pc[c] = "status"
    /\ \/ /\ Fail(c, "transport")
          /\ UNCHANGED <<status, seen, wakeAt, log, ga>>
       \/ \E s \in Statuses :
          \E r \in IF s = "DONE" THEN ResponseFileIds ELSE {Undefined} :
            /\ status' = [status EXCEPT ![c] = [status |-> s, response_file_id |-> r]]
            /\ seen' = [seen EXCEPT ![c] =
                         Append(@, [status |-> s, elapsed |-> now - startTime[c]])]
            /\ IF TimedOut(now, startTime[c])
               THEN /\ Fail(c, "timeout")
                    /\ UNCHANGED <<wakeAt, log, ga>>
               ELSE IF KeepPolling(s)
                    THEN /\ pc' = [pc EXCEPT ![c] = "delay"]
                         /\ wakeAt' = [wakeAt EXCEPT ![c] =
                                         now + RECOGNITION_POLLING_DELAY]
                         /\ UNCHANGED <<pending, outcome, log, ga>>
                    ELSE /\ Authorized(c, DownloadRequest(r), startTime[c])
                         /\ UNCHANGED <<wakeAt, outcome>>
    /\ UNCHANGED <<now, token, issued, audioPath, encoding, metadata, upload,
                   job, startTime, recognitionResult>>

\* StatusResponse with a failed status request retried after the polling delay
StatusResponseRetrying(c) ==
    /\ pc[c] = "status"
    /\ \/ /\ pc' = [pc EXCEPT ![c] = "delay"]
          /\ wakeAt' = [wakeAt EXCEPT ![c] = now + RECOGNITION_POLLING_DELAY]
          /\ UNCHANGED <<status, seen, pending, outcome, log, ga>>
       \/ \E s \in Statuses :
          \E r \in IF s = "DONE" THEN ResponseFileIds ELSE {Undefined} :
            /\ status' = [status EXCEPT ![c] = [status |-> s, response_file_id |-> r]]
            /\ seen' = [seen EXCEPT ![c] =
                         Append(@, [status |-> s, elapsed |-> now - startTime[c]])]
            /\ IF KeepPolling(s)
               THEN IF TimedOut(now, startTime[c])
                    THEN /\ Fail(c, "timeout")
                         /\ UNCHANGED <<wakeAt, log, ga>>
                    ELSE /\ pc' = [pc EXCEPT ![c] = "delay"]
                         /\ wakeAt' = [wakeAt EXCEPT ![c] =
                                         now + RECOGNITION_POLLING_DELAY]
                         /\ UNCHANGED <<pending, outcome, log, ga>>
               ELSE /\ Authorized(c, DownloadRequest(r), startTime[c])
                    /\ UNCHANGED <<wakeAt, outcome>>
    /\ UNCHANGED <<now, token, issued, audioPath, encoding, metadata, upload,
                   job, startTime, recognitionResult>>

\* a status request settles; on success one test of the while loop runs
StatusResponse(c) ==
    /\ pc[c] = "status"
    /\ \/ /\ Fail(c, "transport")
          /\ UNCHANGED <<status, seen, wakeAt, log, ga>>
       \/ \E s \in Statuses :
          \E r \in IF s = "DONE" THEN ResponseFileIds ELSE {Undefined} :
            /\ status' = [status EXCEPT ![c] = [status |-> s, response_file_id |-> r]]
            /\ seen' = [seen EXCEPT ![c] =
                         Append(@, [status |-> s, elapsed |-> now - startTime[c]])]
            /\ IF KeepPolling(s)
               THEN IF TimedOut(now, startTime[c])
                    THEN /\ Fail(c, "timeout")
                         /\ UNCHANGED <<wakeAt, log, ga>>
                    ELSE /\ pc' = [pc EXCEPT ![c] = "delay"]
                         /\ wakeAt' = [wakeAt EXCEPT ![c] =
                                         now + RECOGNITION_POLLING_DELAY]
                         /\ UNCHANGED <<pending, outcome, log, ga>>
               ELSE /\ Authorized(c, DownloadRequest(r), startTime[c])
                    /\ UNCHANGED <<wakeAt, outcome>>
    /\ UNCHANGED <<now, token, issued, audioPath, encoding, metadata, upload,
                   job, startTime, recognitionResult>>

\* DelayDone with a timer that fires one clock unit early
DelayDoneEarly(c) ==
    /\ pc[c] = "delay"
    /\ now >= wakeAt[c] - 1
    /\ Authorized(c, StatusRequest(job[c]), startTime[c])
    /\ UNCHANGED <<now, token, issued, audioPath, encoding, metadata, upload,
                   job, startTime, status, wakeAt, recognitionResult, outcome, seen>>

\* the timer of delay() fires; the next getRecognitionStatus runs up to its request
DelayDone(c) ==
    /\ pc[c] = "delay"
    /\ now >= wakeAt[c]
    /\ Authorized(c, StatusRequest(job[c]), startTime[c])
    /\ UNCHANGED <<now, token, issued, audioPath, encoding, metadata, upload,
                   job, startTime, status, wakeAt, recognitionResult, outcome, seen>>

\* getRecognitionResult returns `body`: it is aggregated and returned
Aggregated(c, body) ==
    /\ pc[c] = "download"
    /\ recognitionResult' = [recognitionResult EXCEPT ![c] = body]
    /\ pc' = [pc EXCEPT ![c] = "resolved"]
    /\ outcome' = [outcome EXCEPT ![c] = Aggregate(body)]
    /\ UNCHANGED <<now, token, issued, pending, audioPath, encoding, metadata,
                   upload, job, startTime, status, wakeAt, log, seen, ga>>

\* the download request settles; on success the result is aggregated and returned
DownloadResponse(c) ==
    \/ /\ pc[c] = "download"
       /\ Fail(c, "transport")
       /\ UNCHANGED <<now, token, issued, audioPath, encoding, metadata, upload,
                      job, startTime, status, wakeAt, recognitionResult, log, seen, ga>>
    \/ \E body \in DownloadBodies : Aggregated(c, body)

Step(c) ==
    \/ Call(c)
    \/ ParseDone(c)
    \/ TokenResponse(c)
    \/ UploadResponse(c)
    \/ StartResponse(c)
    \/ StatusResponse(c)
    \/ DelayDone(c)
    \/ DownloadResponse(c)

Next ==
    \/ Tick
    \/ \E c \in Solo : Step(c)

Spec == Init /\ [][Next]_vars

\* Spec with every awaited promise settling in the end: the file read, each
\* remote request and the timer; and with the clock moving on
FairSpec ==
    /\ Spec
    /\ WF_vars(Tick)
    /\ \A c \in Solo :
         /\ WF_vars(ParseDone(c))
         /\ WF_vars(TokenResponse(c))
         /\ WF_vars(UploadResponse(c))
         /\ WF_vars(StartResponse(c))
         /\ WF_vars(StatusResponse(c))
         /\ WF_vars(DelayDone(c))
         /\ WF_vars(DownloadResponse(c))

----------------------------------------------------------------------------
(* Two overlapping calls on the one instance, each followed up to its      *)
(* start request: every getAccessToken of the upload and start stages.     *)

RaceStep(c) ==
    \/ Call(c)
    \/ ParseDone(c)
    \/ TokenResponse(c)
    \/ UploadResponse(c)

RaceNext ==
    \/ Tick
    \/ \E c \in Calls : RaceStep(c)

RaceSpec == Init /\ [][RaceNext]_vars

----------------------------------------------------------------------------
(* Aggregation alone: c1 has sent its download request (a state Spec       *)
(* reaches, see AggInitNeverReached) and the endpoint answers with any     *)
(* bounded result.                                                         *)

AggToken == [access_token |-> 1, expires_at |-> 4]

AggInit ==
    /\ now = 0
    /\ token = AggToken
    /\ issued = 1
    /\ pc = [c \in Calls |-> IF c = "c1" THEN "download" ELSE "idle"]
    /\ pending = [c \in Calls |-> NoPending]
    /\ audioPath = [c \in Calls |-> IF c = "c1" THEN "/audio.mp3" ELSE Unset]
    /\ encoding = [c \in Calls |-> IF c = "c1" THEN "MP3" ELSE Unset]
    /\ metadata = [c \in Calls |->
                     IF c = "c1" THEN MetaOf("/audio.mp3") ELSE NoMetadata]
    /\ upload = [c \in Calls |-> IF c = "c1" THEN "file-1" ELSE Unset]
    /\ job = [c \in Calls |-> IF c = "c1" THEN "job-1" ELSE Unset]
    /\ startTime = [c \in Calls |-> 0]
    /\ status = [c \in Calls |->
                   IF c = "c1"
                   THEN [status |-> "DONE", response_file_id |-> "resp-1"]
                   ELSE NoStatus]
    /\ wakeAt = [c \in Calls |-> 0]
    /\ recognitionResult = [c \in Calls |-> NotDownloaded]
    /\ outcome = [c \in Calls |-> NoOutcome]
    /\ log = [c \in Calls |->
                IF c = "c1"
                THEN <<Entry("token", 0, "scope", NoOptions, 0),
                       Entry("upload", 1, "/audio.mp3", NoOptions, 0),
                       Entry("start", 1, "file-1",
                             StartRequest("file-1", "MP3",
                                          MetaOf("/audio.mp3")).options, 0),
                       Entry("status", 1, "job-1", NoOptions, 0),
                       Entry("download", 1, "resp-1", NoOptions, 0)>>
                ELSE <<>>]
    /\ seen = [c \in Calls |->
                 IF c = "c1" THEN <<[status |-> "DONE", elapsed |-> 0]>> ELSE <<>>]
    /\ ga = [c \in Calls |->
               IF c = "c1"
               THEN [held |-> AggToken, at |-> 0, exchanges |-> 0,
                     reply |-> "none", returned |-> AggToken, state |-> "returned"]
               ELSE NoGa]

AggNext == \E body \in BoundedResults : Aggregated("c1", body)

AggSpec == AggInit /\ [][AggNext]_vars
----------------------------------------------------------------------------
(* Properties.                                                             *)

Last(s) == s[Len(s)]

Count(c, k) == Cardinality({i \in DOMAIN log[c] : log[c][i].kind = k})

IsStageRequest(e) == e.kind # "token"

\* the requests of a call other than token requests, in order
Requests(c) == SelectSeq(log[c], IsStageRequest)

Rank(k) ==
    CASE k = "upload" -> 1
      [] k = "start" -> 2
      [] k = "status" -> 3
      [] k = "download" -> 4

ErrorKinds == {"parse", "transport", "auth", "type", "timeout"}

\* C1 (as claimed): a getAccessToken that finds a held token with
\* expires_at - MAX_WAIT_TIME earlier than the current time sends exactly one
\* token request and returns the new token, not the held one.
C1_StaleTokenIsExchanged ==
    \A c \in Calls :
      LET g == ga[c] IN
        (g.state = "returned" /\ ~Falsy(g.held)
           /\ g.held.expires_at - MAX_WAIT_TIME < g.at)
          => (g.exchanges = 1 /\ g.returned # g.held)

\* C2: a getAccessToken entered while the held token is within its freshness
\* window (current time <= expires_at - MAX_WAIT_TIME) returns the held token,
\* sends no token request, and the request that follows carries that token.
C2_FreshTokenIsReused ==
    \A c \in Calls :
      LET g == ga[c] IN
        (g.state # "none" /\ ~Falsy(g.held)
           /\ g.at <= g.held.expires_at - MAX_WAIT_TIME)
          => /\ g.state = "returned"
             /\ g.exchanges = 0
             /\ g.returned = g.held
             /\ Last(log[c]).kind # "token"
             /\ Last(log[c]).bearer = g.held.access_token

C2_Witness ==
    \E c \in Calls :
      LET g == ga[c] IN
        /\ g.state = "returned" /\ ~Falsy(g.held)
        /\ g.at <= g.held.expires_at - MAX_WAIT_TIME
        /\ g.exchanges = 0
        /\ Count(c, "token") = 1
        /\ Len(log[c]) >= 3

\* C3: the number of status queries equals the number of status answers (plus
\* the one in flight or failed in transport); "DONE" is only ever the last answer; once "DONE" has
\* arrived no status query follows and the call goes on to the download; a call
\* that reached the download saw n-1 non-"DONE" answers, then "DONE", and sent
\* exactly n status queries.
C3_PollingQueryCount ==
    \A c \in Calls :
      LET n == Len(seen[c]) IN
        /\ Count(c, "status") =
             n + (IF \/ pc[c] = "status"
                     \/ /\ pc[c] = "failed" /\ outcome[c].kind = "transport"
                        /\ Last(log[c]).kind = "status"
                  THEN 1 ELSE 0)
        /\ \A i \in 1..n :
             seen[c][i].status = "DONE" =>
               /\ i = n
               /\ Count(c, "status") = n
               /\ pc[c] \in {"token", "download", "resolved", "failed"}
               /\ pc[c] = "token" => pending[c].kind = "download"
               /\ pc[c] = "failed" => outcome[c].kind \in {"transport", "auth"}
        /\ Count(c, "download") > 0 =>
             /\ n >= 1
             /\ seen[c][n].status = "DONE"
             /\ Count(c, "status") = n
             /\ Last(log[c]).kind = "download"

C3_Witness ==
    \E c \in Calls :
      /\ Len(seen[c]) = 3
      /\ seen[c][1].status # seen[c][2].status
      /\ seen[c][3].status = "DONE"
      /\ Count(c, "status") = 3
      /\ pc[c] = "download"

\* C4 (as claimed): no status query leaves once Date.now() - startTime exceeds
\* MAX_WAIT_TIME, and a call whose status answer arrives past that deadline
\* fails with the timeout error.
C4_NothingAfterDeadline ==
    \A c \in Calls :
      /\ \A i \in DOMAIN log[c] :
           log[c][i].kind = "status" => log[c][i].elapsed <= MAX_WAIT_TIME
      /\ \A i \in DOMAIN seen[c] :
           seen[c][i].elapsed > MAX_WAIT_TIME =>
             pc[c] = "failed" /\ outcome[c].kind = "timeout"

\* C4 (amended): a non-"DONE" status answer that arrives when
\* Date.now() - startTime > MAX_WAIT_TIME is the last one: the call fails with
\* the timeout error and sends nothing after that status query; the timeout
\* error is raised in no other case; at most one status query leaves past the
\* deadline.
C4_TimeoutAtCheck ==
    \A c \in Calls :
      /\ \A i \in DOMAIN seen[c] :
           (seen[c][i].status # "DONE" /\ seen[c][i].elapsed > MAX_WAIT_TIME) =>
             /\ i = Len(seen[c])
             /\ pc[c] = "failed"
             /\ outcome[c].kind = "timeout"
             /\ Last(log[c]).kind = "status"
             /\ Count(c, "status") = i
      /\ outcome[c].kind = "timeout" =>
           /\ seen[c] # <<>>
           /\ Last(seen[c]).status # "DONE"
           /\ Last(seen[c]).elapsed > MAX_WAIT_TIME
      /\ Cardinality({i \in DOMAIN log[c] :
                        /\ log[c][i].kind = "status"
                        /\ log[c][i].elapsed > MAX_WAIT_TIME}) <= 1

C4_Witness ==
    \E c \in Calls :
      /\ outcome[c].kind = "timeout"
      /\ Len(seen[c]) >= 2
      /\ Last(log[c]).elapsed > MAX_WAIT_TIME

\* C5: leaving token requests aside, a call's requests are one upload, then one
\* start, then status queries, then one download, in that order, with no
\* stage's request repeated; a resolved call sent exactly one upload, one start
\* and one download.
C5_StageOrder ==
    \A c \in Calls :
      LET r == Requests(c) IN
        /\ \A i, j \in DOMAIN r : i < j => Rank(r[i].kind) <= Rank(r[j].kind)
        /\ Count(c, "upload") <= 1
        /\ Count(c, "start") <= 1
        /\ Count(c, "download") <= 1
        /\ Count(c, "start") = 1 => Count(c, "upload") = 1
        /\ Count(c, "status") >= 1 => Count(c, "start") = 1
        /\ Count(c, "download") = 1 => Count(c, "status") >= 1
        /\ pc[c] = "resolved" =>
             /\ Count(c, "upload") = 1
             /\ Count(c, "start") = 1
             /\ Count(c, "download") = 1

C5_Witness ==
    \E c \in Calls :
      /\ pc[c] = "resolved"
      /\ Count(c, "status") >= 2
      /\ Count(c, "token") >= 2

C6_FailsAtomically ==
    \A c \in Calls :
      /\ pc[c] = "resolved" <=> outcome[c].kind = "resolved"
      /\ pc[c] = "failed" <=> outcome[c].kind \in ErrorKinds
      /\ pc[c] \notin {"resolved", "failed"} => outcome[c] = NoOutcome
      /\ pc[c] = "resolved" =>
           /\ log[c] # <<>> /\ Last(log[c]).kind = "download"
           /\ seen[c] # <<>> /\ Last(seen[c]).status = "DONE"
      /\ pc[c] = "failed" =>
           /\ outcome[c].text = <<>> /\ outcome[c].normalizedText = <<>>
           /\ pending[c] = NoPending
           /\ outcome[c].kind = "parse" => log[c] = <<>>
           /\ outcome[c].kind = "auth" => Last(log[c]).kind = "token"
           /\ outcome[c].kind = "type" => Last(log[c]).kind = "upload"
           /\ outcome[c].kind = "timeout" => Last(log[c]).kind = "status"
           /\ outcome[c].kind = "transport" => log[c] # <<>>

C6_NothingAfterFailure ==
    \A c \in Calls :
      pc[c] = "failed" =>
        /\ pc'[c] = "failed"
        /\ log'[c] = log[c]
        /\ outcome'[c] = outcome[c]

\* C6: a call that fails ends with the error of the stage that failed, has sent
\* no request after that stage's, sends none afterwards and returns no
\* {text, normalizedText}; a value is returned only after the download answered.
C6_AtomicFailure == []C6_FailsAtomically /\ [][C6_NothingAfterFailure]_vars

C6_Witness ==
    \E c \in Calls :
      /\ pc[c] = "failed"
      /\ outcome[c].kind = "transport"
      /\ Last(log[c]).kind = "status"
      /\ Count(c, "status") = 2

C7_BearerIsReturnedToken ==
    \A c \in Calls :
      /\ \A i \in DOMAIN log[c] : log[c][i].kind = "token" <=> log[c][i].bearer = 0
      /\ (log[c] # <<>> /\ Last(log[c]).kind # "token") =>
           /\ ga[c].state = "returned"
           /\ ~Falsy(ga[c].returned)
           /\ Last(log[c]).bearer = ga[c].returned.access_token

C7_SentWhileHoldingToken ==
    \A c \in Calls :
      (log'[c] # log[c] /\ Last(log'[c]).kind # "token") =>
        /\ ~Falsy(token')
        /\ Last(log'[c]).bearer = token'.access_token

\* C7: every upload, start, status and download request carries the access
\* token returned by the getAccessToken that ran just before it, and leaves
\* while the client holds that token; only token requests carry no bearer token.
C7_Authorization ==
    []C7_BearerIsReturnedToken /\ [][C7_SentWhileHoldingToken]_vars

C7_Witness ==
    \E c \in Calls :
      /\ Len(Requests(c)) >= 4
      /\ \E i, j \in DOMAIN log[c] :
           /\ log[c][i].bearer # 0 /\ log[c][j].bearer # 0
           /\ log[c][i].bearer # log[c][j].bearer

\* C8 (as claimed): the upload request's body is the bytes of the file at
\* audioPath.
C8_UploadBodyIsFileBytes ==
    \A c \in Calls :
      \A i \in DOMAIN log[c] :
        log[c][i].kind = "upload" => log[c][i].arg = FileBytes(audioPath[c])

\* C9 (as claimed): when the upload answer lacks the Upload Result shape, the
\* call fails and sends no start request.
C9_MalformedUploadFails ==
    \A c \in Calls :
      upload[c] \in {Undefined, NoResult} =>
        /\ pc[c] = "failed"
        /\ Count(c, "start") = 0

\* C10: when the token endpoint answers without a token, getAccessToken throws
\* the 'Failed to get access token' error, the call fails with it, and the
\* stage that asked for the token sends no request.
C10_EmptyTokenReplyFails ==
    \A c \in Calls :
      ga[c].reply = "empty" =>
        /\ ga[c].state = "threw"
        /\ pc[c] = "failed"
        /\ outcome[c].kind = "auth"
        /\ Last(log[c]).kind = "token"

C10_Witness ==
    \E c \in Calls :
      /\ ga[c].reply = "empty"
      /\ Falsy(ga[c].held)
      /\ pc[c] = "failed"

\* refuted under Spec: the state AggSpec starts in is a state Spec reaches
AggInitNeverReached == ~AggInit

\* all fragments of a result, in segment order then fragment order
RECURSIVE Flattened(_)
Flattened(segs) ==
    IF segs = <<>> THEN <<>>
    ELSE Flattened(SubSeq(segs, 1, Len(segs) - 1)) \o segs[Len(segs)]

\* the fragments' `field`, each prefixed by one space, concatenated
RECURSIVE Prefixed(_, _)
Prefixed(frags, field) ==
    IF frags = <<>> THEN <<>>
    ELSE Prefixed(SubSeq(frags, 1, Len(frags) - 1), field)
           \o <<" ">> \o frags[Len(frags)][field]

\* s from its first to its last non-blank character
Trimmed(s) ==
    LET inked == {i \in 1..Len(s) : s[i] # " "} IN
      IF inked = {} THEN <<>>
      ELSE SubSeq(s, CHOOSE i \in inked : \A j \in inked : i <= j,
                     CHOOSE i \in inked : \A j \in inked : i >= j)

\* C11: the returned text is the text fields in segment order then fragment
\* order, each prefixed by one space, concatenated and trimmed; normalizedText
\* is the same over normalized_text; a result whose segments hold no fragments
\* yields two empty strings.
C11_Aggregation ==
    \A c \in Calls :
      pc[c] = "resolved" =>
        LET r == recognitionResult[c] IN
          /\ outcome[c].text = Trimmed(Prefixed(Flattened(r), "text"))
          /\ outcome[c].normalizedText =
               Trimmed(Prefixed(Flattened(r), "normalized_text"))
          /\ (\A i \in DOMAIN r : r[i] = <<>>) =>
               outcome[c].text = <<>> /\ outcome[c].normalizedText = <<>>

C11_Witness ==
    \E c \in Calls :
      /\ pc[c] = "resolved"
      /\ recognitionResult[c] =
           << <<Fragment(<<"a">>, <<"A">>)>>,
              <<Fragment(<<" ">>, <<>>), Fragment(<<"b">>, <<"B">>)>> >>
      /\ outcome[c].text = <<"a", " ", " ", " ", "b">>
      /\ outcome[c].normalizedText = <<"A", " ", " ", "B">>

C12_EachCallerRefreshes ==
    \A c \in Calls :
      LET g == ga[c] IN
        (g.state # "none"
           /\ (Falsy(g.held) \/ g.held.expires_at < g.at - MAX_WAIT_TIME))
          => g.exchanges = 1

C12_LastWriterWins ==
    \A c \in Calls :
      (ga[c].state = "waiting" /\ ga'[c].reply = "token") =>
        /\ token' = ga'[c].returned
        /\ token' # token

\* C12: with two calls running on one instance, every getAccessToken that
\* finds the token absent or stale sends its own token request, also while
\* another call's token request is in flight, and each token answer overwrites
\* the held token, so the token of the answer stored last is the one held.
C12_TokenRace == []C12_EachCallerRefreshes /\ [][C12_LastWriterWins]_vars

C12_Witness ==
    /\ Falsy(ga["c1"].held) /\ Falsy(ga["c2"].held)
    /\ ga["c1"].reply = "token" /\ ga["c2"].reply = "token"
    /\ Count("c1", "token") = 1 /\ Count("c2", "token") = 1
    /\ ga["c1"].returned.access_token = 1
    /\ ga["c2"].returned.access_token = 2
    /\ token = ga["c2"].returned

C13_FailedQueryEndsCall ==
    \A c \in Calls :
      (pc[c] = "failed" /\ outcome[c].kind = "transport" /\ log[c] # <<>>
         /\ Last(log[c]).kind = "status") =>
        /\ Count(c, "status") = Len(seen[c]) + 1
        /\ Count(c, "download") = 0

C13_NoRetry ==
    \A c \in Calls :
      /\ (pc[c] = "status" /\ pc'[c] # "status" /\ seen'[c] = seen[c]) =>
           /\ pc'[c] = "failed"
           /\ outcome'[c].kind = "transport"
           /\ log'[c] = log[c]
      /\ (pc[c] = "token" /\ pending[c].kind = "status" /\ ga'[c].reply = "error") =>
           /\ pc'[c] = "failed"
           /\ outcome'[c].kind = "transport"
           /\ log'[c] = log[c]
      /\ pc[c] = "failed" =>
           /\ pc'[c] = "failed"
           /\ log'[c] = log[c]
           /\ wakeAt'[c] = wakeAt[c]

\* C13: a status query that fails in transport, or whose token request fails
\* in transport, fails the call with that error in the same step; the call
\* then sets no timer and sends no status query and no download request.
C13_NoRetryInPolling == []C13_FailedQueryEndsCall /\ [][C13_NoRetry]_vars

C13_Witness ==
    \E c \in Calls :
      /\ pc[c] = "failed"
      /\ outcome[c].kind = "transport"
      /\ ga[c].reply = "error"
      /\ Last(log[c]).kind = "token"
      /\ Count(c, "status") = 2
      /\ Len(seen[c]) = 2

C14_StartTimeFixed ==
    \A c \in Calls :
      /\ (job[c] = Unset /\ job'[c] # Unset) => startTime'[c] = now'
      /\ job[c] # Unset => startTime'[c] = startTime[c]
      /\ (pc[c] = "status" /\ outcome'[c].kind = "timeout") =>
           now - startTime[c] > MAX_WAIT_TIME
      /\ (pc[c] = "status" /\ pc'[c] = "delay") =>
           now - startTime[c] <= MAX_WAIT_TIME

\* C14: startTime is Date.now() at the moment the start request has answered,
\* so the upload and start stages are not counted; it never changes afterwards;
\* a loop test raises the timeout error only when Date.now() - startTime is
\* strictly greater than MAX_WAIT_TIME, and otherwise sets the polling timer.
C14_TimeoutClock == [][C14_StartTimeFixed]_vars

C14_Witness ==
    \E c \in Calls :
      /\ startTime[c] > 0
      /\ Len(seen[c]) = 2
      /\ seen[c][1].elapsed = MAX_WAIT_TIME
      /\ outcome[c].kind = "timeout"

C15_NoTimeoutAfterDone ==
    \A c \in Calls :
      outcome[c].kind = "timeout" => seen[c] # <<>> /\ Last(seen[c]).status # "DONE"

C15_DoneStartsDownload ==
    \A c \in Calls :
      (seen'[c] # seen[c] /\ Last(seen'[c]).status = "DONE") =>
        /\ outcome'[c] = NoOutcome
        /\ pc'[c] \in {"download", "token"}
        /\ pc'[c] = "download" =>
             /\ Last(log'[c]).kind = "download"
             /\ Len(log'[c]) = Len(log[c]) + 1
        /\ pc'[c] = "token" => pending'[c].kind = "download"

\* C15 (as claimed): a call that has received "DONE" has issued the download
\* request by the time it ends.
C15_DoneIssuesDownload ==
    \A c \in Calls :
      (seen[c] # <<>> /\ Last(seen[c]).status = "DONE"
         /\ pc[c] \in {"resolved", "failed"})
        => Count(c, "download") = 1

\* C15 (amended): a "DONE" answer ends polling with success whatever
\* Date.now() - startTime is: in the same step the call goes on to
\* getRecognitionResult, which sends the download request (after the token
\* request, when the token needs a refresh); the timeout error is raised only
\* on an answer other than "DONE".
C15_DonePriority == []C15_NoTimeoutAfterDone /\ [][C15_DoneStartsDownload]_vars

C15_Witness ==
    \E c \in Calls :
      /\ seen[c] # <<>>
      /\ Last(seen[c]).status = "DONE"
      /\ Last(seen[c]).elapsed > MAX_WAIT_TIME
      /\ Last(log[c]).kind = "download"
      /\ pc[c] = "resolved"

C16_OnlyDoneEndsPolling ==
    \A c \in Calls :
      /\ (pc[c] \in {"download", "resolved"} \/ Count(c, "download") > 0) =>
           seen[c] # <<>> /\ Last(seen[c]).status = "DONE"
      /\ (pc[c] = "failed" /\ seen[c] # <<>> /\ Last(seen[c]).status # "DONE"
            /\ Last(log[c]).kind = "status" /\ Count(c, "status") = Len(seen[c])) =>
           /\ outcome[c].kind = "timeout"
           /\ Last(seen[c]).elapsed > MAX_WAIT_TIME

C16_SameStepForEveryStatus ==
    \A c \in Calls :
      (seen'[c] # seen[c] /\ Last(seen'[c]).status # "DONE") =>
        /\ log'[c] = log[c]
        /\ IF now - startTime[c] > MAX_WAIT_TIME
           THEN pc'[c] = "failed" /\ outcome'[c].kind = "timeout"
           ELSE /\ pc'[c] = "delay"
                /\ wakeAt'[c] = now + RECOGNITION_POLLING_DELAY
                /\ outcome'[c] = NoOutcome

\* C16: the step taken on a status answer other than "DONE" depends on the
\* elapsed time only, not on the status: past the deadline the timeout error,
\* otherwise the polling timer and a new query; only "DONE" leads to the
\* download, so polling that ends on an answered failure status ends in the
\* timeout error, past the deadline.
C16_NonDoneAlike == []C16_OnlyDoneEndsPolling /\ [][C16_SameStepForEveryStatus]_vars

C16_Witness ==
    \E c \in Calls :
      /\ outcome[c].kind = "timeout"
      /\ Len(seen[c]) = 3
      /\ \A i \in DOMAIN seen[c] : seen[c][i].status = "ERROR"

C17_QueryBound ==
    \A c \in Calls :
      Count(c, "status") <= (MAX_WAIT_TIME \div RECOGNITION_POLLING_DELAY) + 2

C17_CallEnds ==
    \A c \in Calls : (pc[c] # "idle") ~> (pc[c] \in {"resolved", "failed"})

\* C17: when every awaited request, file read and timer settles in the end, a
\* call that was made resolves or fails, and it never sends more than
\* floor(MAX_WAIT_TIME / RECOGNITION_POLLING_DELAY) + 2 status queries.
C17_PollingTerminates == []C17_QueryBound /\ C17_CallEnds

C17_Witness ==
    \E c \in Calls :
      /\ Count(c, "status") = (MAX_WAIT_TIME \div RECOGNITION_POLLING_DELAY) + 2
      /\ Len(seen[c]) = Count(c, "status")
      /\ pc[c] = "failed"
      /\ outcome[c].kind = "timeout"

\* C18: a call's start request carries the request_file_id of its upload
\* answer, each of its status queries carries the id of its start answer, and
\* its download request carries the response_file_id of the last status
\* answer, the one that said "DONE".
C18_IdentifierFlow ==
    \A c \in Calls :
      \A i \in DOMAIN log[c] :
        LET e == log[c][i] IN
          /\ e.kind = "start" =>
               /\ upload[c] \in UploadBodies
               /\ e.arg = upload[c]
          /\ e.kind = "status" =>
               /\ job[c] \in JobIds
               /\ e.arg = job[c]
          /\ e.kind = "download" =>
               /\ status[c].status = "DONE"
               /\ status[c].response_file_id \in ResponseFileIds
               /\ e.arg = status[c].response_file_id

C18_Witness ==
    \E c \in Calls :
      /\ pc[c] = "resolved"
      /\ upload[c] = "file-2" /\ job[c] = "job-2"
      /\ status[c].response_file_id = "resp-2"
      /\ Count(c, "status") = 2
      /\ \E i \in DOMAIN log[c] : log[c][i].kind = "start" /\ log[c][i].arg = "file-2"
      /\ Last(log[c]).arg = "resp-2"

\* C19: the held token changes only in a step in which a token request of some
\* call is answered, and it becomes the body of that answer; a token request
\* that fails in transport leaves the held token, or its absence, as it was;
\* a step that settles an upload, start, status or download request leaves
\* the held token as it was.
C19_ChangesOnlyOnAnswer ==
    token' # token =>
      \E c \in Calls :
        /\ pc[c] = "token" /\ pc'[c] # "token"
        /\ ga'[c].reply \in {"token", "empty"}
        /\ token' \in TokenBodies

C19_TransportFailureKeeps ==
    \A c \in Calls :
      (pc[c] = "token" /\ pc'[c] = "failed" /\ outcome'[c].kind = "transport")
        => token' = token

C19_StagesKeep ==
    \A c \in Calls :
      (pc[c] \in {"upload", "start", "status", "download"} /\ pc'[c] # pc[c])
        => token' = token

====
